---- MODULE Spec2Model ----
(***************************************************************************)
(* A model of the RAGCheck evaluation harness:                             *)
(*   - parse_evaluation  (src/src/evaluation/evaluator.py), the parser of  *)
(*     the judge's text, as a pure function over strings;                  *)
(*   - evaluate_batch / process_question (same file), the asyncio batch    *)
(*     loop, as a state machine of the event loop and its tasks;           *)
(*   - TestGenerator.create_tests (src/create_test.py), the retry loop.    *)
(*                                                                         *)
(* Strings are sequences of tokens.  A token is a run of characters that   *)
(* the code never looks inside, except for its case and for being a digit, *)
(* white space or a separator: "score" and "Score" are the score keyword   *)
(* in two spellings, "w" is a letter that occurs in no keyword, "0", "1"   *)
(* and "2" are digits.  No keyword can straddle two tokens, so Python's    *)
(* substring test is a test for a contiguous run of tokens.                *)
(***************************************************************************)
EXTENDS Integers, Sequences, FiniteSets, TLC

VARIABLES
    \* evaluate_batch
    questions,      \* the argument `questions`: a sequence of rows
    batch_size,     \* the argument `batch_size`
    i,              \* the loop variable of `for i in range(0, len(questions), batch_size)`
    results,        \* the list `results`
    task,           \* per question index: where its process_question task is
    rag_response,   \* per question index: the local `rag_response` of its task
    evaluation,     \* per question index: the local `evaluation` of its task
    fault,          \* per question index: the exception `e` its except clause caught
    batch_results,  \* per question index: the slot asyncio.gather keeps for its result
    finished,       \* the tasks of the current batch in the order they finished
    running,        \* the question index of the task that holds the event loop's thread, or 0
    pc,             \* where evaluate_batch itself is
    pbar,           \* the progress bar: its count and the description last set
    \* parse_evaluation, applied to one text
    ptext,          \* the text handed to parse_evaluation
    presult,        \* what it returned
    ppc,            \* "input" before the call, "parsed" after it returned, "raised" after it raised
    \* TestGenerator.create_tests
    attempt,        \* the loop variable of `for attempt in range(max_retries)`
    retry_delay,    \* the local `retry_delay`
    error_message,  \* the local `error_message` of the except clause
    wait_time,      \* the argument of the time.sleep in progress
    rpc,            \* where create_tests is: "call", "sleep", "returned", "raised"
    invocations,    \* how many times chain.invoke was called
    waits,          \* how many times time.sleep returned
    other_failures, \* how many invocations failed with an error that is no rate limit
    outcome,        \* what create_tests returned or raised
    \* evaluate_rag_system
    test_set_exists, \* os.path.exists(test_set_path)
    arg_batch_size,  \* the argument `batch_size`
    num_tests,       \* the argument `num_tests`: <<>> for None, <<n>> for the number n
    csv_rows,        \* how many rows the test-set file holds
    results_dir,     \* the directory "results": "absent", "present", or "created" by this run
    epc,             \* where evaluate_rag_system is
    csv_read,        \* whether pd.read_csv was called
    rag_calls,       \* how many questions were handed to evaluate_batch for RAG and judge calls
    run_results,     \* the local `results`: the score of each result row
    average_score,   \* the local `average_score`, a fraction num/den (den = 0: not computed)
    report,          \* the report file: "none", "empty" (opened, nothing written), "written"
    run_pbar,        \* the tqdm bar: whether it was created and how often close() was called
    run_error,       \* the exception evaluate_rag_system raised, or "none"
    \* TestGenerator.parse_response, applied to one response
    response_lines,  \* the lines of `response_text`
    data,            \* the list `data` it returned
    gpc,             \* "input" before the call, "returned" or "raised" after
    \* TestGenerator.main
    files,           \* how many files glob found; args_list is 1..files
    fstate,          \* per file: where its process_file call is in the pool
    fattempt,        \* per file: the loop variable `attempt` of its create_tests
    parsed_data,     \* per file: what its process_file returned
    done_order,      \* the files in the order their process_file calls ended
    wait_seen,       \* per file: the waits of other files that were going on when it started
    futures,         \* the list `futures`: the results list(...) has taken from executor.map
    extended,        \* how many entries of `futures` the for loop has gone through
    main_data,       \* the list `data` of main
    output_csv,      \* what was saved to output.csv
    mpc,             \* where the thread that runs main is
    main_error,      \* the exception main raised, or "none"
    \* the dashboard script
    confirm_delete,  \* st.session_state.confirm_delete
    csv_files,       \* the .csv files in the results folder
    last_click,      \* the button whose click started the last run of the script
    cleared          \* the call of clear_results_folder in the last run: its result and the files it removed

evalVars == <<questions, batch_size, i, results, task, rag_response, evaluation,
              fault, batch_results, finished, running, pc, pbar>>
parseVars == <<ptext, presult, ppc>>
retryVars == <<attempt, retry_delay, error_message, wait_time, rpc, invocations, waits,
               other_failures, outcome>>
runVars == <<test_set_exists, arg_batch_size, num_tests, csv_rows, results_dir, epc,
             csv_read, rag_calls, run_results, average_score, report, run_pbar, run_error>>
genVars == <<response_lines, data, gpc>>
mainVars == <<files, fstate, fattempt, parsed_data, done_order, wait_seen, futures,
              extended, main_data, output_csv, mpc, main_error>>
dashVars == <<confirm_delete, csv_files, last_click, cleared>>
vars == <<evalVars, parseVars, retryVars, runVars, genVars, mainVars, dashVars>>
\* What each part of the program leaves alone.
notEvalVars == <<parseVars, retryVars, runVars, genVars, mainVars, dashVars>>
notParseVars == <<evalVars, retryVars, runVars, genVars, mainVars, dashVars>>
notRetryVars == <<evalVars, parseVars, runVars, genVars, mainVars, dashVars>>
notRunVars == <<evalVars, parseVars, retryVars, genVars, mainVars, dashVars>>
notGenVars == <<evalVars, parseVars, retryVars, runVars, mainVars, dashVars>>
notMainVars == <<evalVars, parseVars, retryVars, runVars, genVars, dashVars>>
notDashVars == <<evalVars, parseVars, retryVars, runVars, genVars, mainVars>>

----------------------------------------------------------------------------
\* Bounds of the model.

\* The largest number of test cases handed to evaluate_batch.
MaxQuestions == 3
\* The largest batch_size handed to evaluate_batch.
MaxBatch == 2
\* The longest text (in tokens) handed to parse_evaluation on its own.
MaxTextLen == 5
\* The longest error text (in tokens) chain.invoke fails with.
MaxErrLen == 4

----------------------------------------------------------------------------
\* Strings.

\* Python's None, and a value that is neither None nor a string (a number, a
\* dict): both are kept apart from every string of tokens.
NoneValue == <<"#None">>
NonStrValue == <<"#NonStr">>

Whitespace == {" ", "\n"}

\* str.lower on one token.
LowerTok(t) ==
    CASE t = "Score" -> "score"
      [] t = "Explanation" -> "explanation"
      [] t = "W" -> "w"
      [] OTHER -> t

\* str.capitalize on one token that was lower-cased before.
CapitalTok(t) ==
    CASE t = "score" -> "Score"
      [] t = "explanation" -> "Explanation"
      [] t = "w" -> "W"
      [] OTHER -> t

Lower(s) == [k \in 1..Len(s) |-> LowerTok(s[k])]

\* str.capitalize on a lower-case string: the first character in upper case.
Capitalize(s) == [k \in 1..Len(s) |-> IF k = 1 THEN CapitalTok(s[k]) ELSE s[k]]

RECURSIVE LStrip(_)
LStrip(s) ==
    IF s = <<>> THEN s
    ELSE IF Head(s) \in Whitespace THEN LStrip(Tail(s)) ELSE s

RECURSIVE RStrip(_)
RStrip(s) ==
    IF s = <<>> THEN s
    ELSE IF s[Len(s)] \in Whitespace THEN RStrip(SubSeq(s, 1, Len(s) - 1)) ELSE s

\* str.strip
Strip(s) == RStrip(LStrip(s))

\* The index of the first occurrence of the run `sep` in s, or 0.
RECURSIVE FindFrom(_, _, _)
FindFrom(s, sep, k) ==
    IF k + Len(sep) - 1 > Len(s) THEN 0
    ELSE IF SubSeq(s, k, k + Len(sep) - 1) = sep THEN k
    ELSE FindFrom(s, sep, k + 1)

Find(s, sep) == FindFrom(s, sep, 1)

\* Python's `sub in s`.
Contains(s, sub) == Find(s, sub) # 0

\* str.split(sep): the pieces between the occurrences of the run sep.
RECURSIVE Split(_, _)
Split(s, sep) ==
    LET k == Find(s, sep)
    IN  IF k = 0 THEN <<s>>
        ELSE <<SubSeq(s, 1, k - 1)>> \o Split(SubSeq(s, k + Len(sep), Len(s)), sep)

\* str.split(sep, 1): at most one split.
Split1(s, sep) ==
    LET k == Find(s, sep)
    IN  IF k = 0 THEN <<s>>
        ELSE <<SubSeq(s, 1, k - 1), SubSeq(s, k + Len(sep), Len(s))>>

\* Every string of at most n tokens of S.
SeqsUpTo(S, n) == UNION {[1..k -> S] : k \in 0..n}

\* str.isdigit on one token.
IsDigit(t) == t \in {"0", "1", "2"}

\* DigitsOf with the bug of keeping the last digit of the line only.
DigitsOf_last(line) ==
    LET d == SelectSeq(line, IsDigit)
    IN  IF d = <<>> THEN d ELSE <<d[Len(d)]>>

\* ''.join(filter(str.isdigit, line))
DigitsOf(line) == SelectSeq(line, IsDigit)

----------------------------------------------------------------------------
\* parse_evaluation

DEFAULT_SCORE == <<"0">>

\* DEFAULT_EXPLANATION with the bug of an empty default.
DEFAULT_EXPLANATION_empty == <<>>

DEFAULT_EXPLANATION == <<"Failed to parse evaluation">>

\* SCORE_KEYWORDS with the bug of asking for the colon.
SCORE_KEYWORDS_colon == {<<"score", ":">>}

SCORE_KEYWORDS == {<<"score">>, <<"score", ":">>}
EXPLANATION_KEYWORDS == {<<"explanation">>, <<"explanation", ":">>}

\* any(keyword in line for keyword in keywords)
AnyKeyword(line, keywords) == \E kw \in keywords : Contains(line, kw)

\* lines = [line.lower().strip() for line in evaluation_text.strip().split('\n')]
LinesOf(text) ==
    LET raw == Split(Strip(text), <<"\n">>)
    IN  [k \in 1..Len(raw) |-> Strip(Lower(raw[k]))]

\* One iteration of `for line in lines`, on the pair (score, explanation).
ParseLine(acc, line) ==
    LET score_text == DigitsOf(line)
        score1 == IF AnyKeyword(line, SCORE_KEYWORDS) /\ score_text \in {<<"0">>, <<"1">>}
                  THEN score_text
                  ELSE acc.score
        parts == Split1(line, <<":">>)
        expl1 == IF AnyKeyword(line, EXPLANATION_KEYWORDS) /\ Len(parts) > 1
                 THEN LET e == Strip(parts[2])
                      IN  IF e # <<>> THEN Capitalize(e) ELSE e
                 ELSE acc.explanation   \* no keyword, or IndexError: continue
    IN  [score |-> score1, explanation |-> expl1]

RECURSIVE ParseLines(_, _)
ParseLines(acc, lines) ==
    IF lines = <<>> THEN acc
    ELSE ParseLines(ParseLine(acc, Head(lines)), Tail(lines))

parse_evaluation(evaluation_text) ==
    IF evaluation_text = <<>> \/ evaluation_text = NoneValue
    THEN [score |-> DEFAULT_SCORE, explanation |-> DEFAULT_EXPLANATION]
    ELSE IF evaluation_text = NonStrValue
    THEN \* .strip() raises AttributeError, caught by `except Exception`
         [score |-> DEFAULT_SCORE,
          explanation |-> <<"Error in evaluation parsing: ", "AttributeError">>]
    ELSE LET r == ParseLines([score |-> DEFAULT_SCORE, explanation |-> DEFAULT_EXPLANATION],
                             LinesOf(evaluation_text))
         IN  [score |-> IF r.score \notin {<<"0">>, <<"1">>} THEN DEFAULT_SCORE ELSE r.score,
              explanation |-> r.explanation]

----------------------------------------------------------------------------
\* evaluate_batch: the inputs.

Min(a, b) == IF a < b THEN a ELSE b

\* The k-th row of the test set: documents are numbered from 1 and each has two
\* questions, so a row is identified by (id, question_num) and by neither alone.
Row(k) ==
    [id |-> ((k - 1) \div 2) + 1,
     question_num |-> ((k - 1) % 2) + 1,
     question |-> <<"question", ToString(k)>>,
     answer |-> <<"answer", ToString(k)>>,
     filename |-> <<"doc", ToString(((k - 1) \div 2) + 1)>>]

Questions(n) == [k \in 1..n |-> Row(k)]

\* What rag_query_fn can return: a text, or None when the index is not loaded.
RagResponses == {<<"w">>, NoneValue}
\* What it can raise.
RagFaults == {"ConnectionError"}
\* What evaluator_model can return: the format asked for with either score, a
\* text without a score line, None.
JudgeTexts ==
    {<<"Score", ":", " ", "1", "\n", "Explanation", ":", " ", "w">>,
     <<"Score", ":", " ", "0", "\n", "Explanation", ":", " ", "w">>,
     <<"Score", ":", " ", "2">>,
     <<"w">>,
     NoneValue}
\* What it can raise.
JudgeFaults == {"KeyError"}

\* No value yet (a local not assigned, a gather slot not filled).
Unset == <<"#unset">>

\* tqdm(total=len(questions), desc="Evaluating questions"), or no bar (pbar=None).
NoPbar == [present |-> FALSE, n |-> 0, desc |-> <<0, 0>>]
NewPbar == [present |-> TRUE, n |-> 0, desc |-> <<0, 0>>]

----------------------------------------------------------------------------
\* evaluate_batch: process_question.

\* The dict returned by the try block.
OkResult(row, response, parsed) ==
    [question_id |-> row.id,
     question_num |-> row.question_num,
     question |-> row.question,
     expected_answer |-> row.answer,
     rag_response |-> response,
     score |-> parsed.score,
     explanation |-> parsed.explanation,
     source_file |-> row.filename]

\* ErrorResult with the bug of an except clause that returns the values the try
\* block had reached instead of the sentinels.
ErrorResult_no_sentinel(row, e) ==
    [question_id |-> row.id,
     question_num |-> row.question_num,
     question |-> row.question,
     expected_answer |-> row.answer,
     rag_response |-> <<"w">>,
     score |-> <<"1">>,
     explanation |-> DEFAULT_EXPLANATION,
     source_file |-> row.filename]

\* ErrorResult with the sentinel "ERROR" as the score too.
ErrorResult_error_score(row, e) ==
    [question_id |-> row.id,
     question_num |-> row.question_num,
     question |-> row.question,
     expected_answer |-> row.answer,
     rag_response |-> <<"ERROR">>,
     score |-> <<"ERROR">>,
     explanation |-> <<"Error during evaluation: ", e>>,
     source_file |-> row.filename]

\* The dict returned by `except Exception as e`.
ErrorResult(row, e) ==
    [question_id |-> row.id,
     question_num |-> row.question_num,
     question |-> row.question,
     expected_answer |-> row.answer,
     rag_response |-> <<"ERROR">>,
     score |-> <<"0">>,
     explanation |-> <<"Error during evaluation: ", e>>,
     source_file |-> row.filename]

\* BatchIdx with the bug of a slice without its upper end: questions[i:].
BatchIdx_rest == (i + 1)..Len(questions)

\* batch = questions[i:i + batch_size], as the indices (from 1) of its rows.
BatchIdx == (i + 1)..Min(i + batch_size, Len(questions))

\* The event loop gives its thread to a task that asyncio.gather made ready; the
\* task runs process_question up to the call of rag_query_fn, which does not
\* return to the event loop.  (asyncio starts ready tasks in the order they were
\* created; the model lets any ready task start, which includes that order.)
TaskRun(q) ==
    /\ pc = "await"
    /\ running = 0
    /\ task[q] = "ready"
    /\ task' = [task EXCEPT ![q] = "rag"]
    /\ running' = q
    /\ UNCHANGED <<questions, batch_size, i, results, rag_response, evaluation, fault,
                   batch_results, finished, pc, pbar, notEvalVars>>

\* RagReturn with a None response treated as a fault: the task raises after the
\* assignment and its except clause returns the error result.
RagReturn_none_is_fault(q, r) ==
    /\ task[q] = "rag"
    /\ rag_response' = [rag_response EXCEPT ![q] = r]
    /\ IF r = NoneValue
       THEN /\ fault' = [fault EXCEPT ![q] = "ValueError"]
            /\ batch_results' =
                  [batch_results EXCEPT ![q] = ErrorResult(questions[q], "ValueError")]
            /\ task' = [task EXCEPT ![q] = "done"]
            /\ finished' = Append(finished, q)
            /\ running' = 0
       ELSE /\ task' = [task EXCEPT ![q] = "judge"]
            /\ UNCHANGED <<fault, batch_results, finished, running>>
    /\ UNCHANGED <<questions, batch_size, i, results, evaluation, pc, pbar, notEvalVars>>

\* rag_query_fn returns r: the prompt is built and evaluator_model is called.
RagReturn(q, r) ==
    /\ task[q] = "rag"
    /\ rag_response' = [rag_response EXCEPT ![q] = r]
    /\ task' = [task EXCEPT ![q] = "judge"]
    /\ UNCHANGED <<questions, batch_size, i, results, evaluation, fault, batch_results,
                   finished, running, pc, pbar, notEvalVars>>

\* The task returns `res`: gather stores it in the task's slot and the thread
\* goes back to the event loop.
TaskReturn(q, res) ==
    /\ batch_results' = [batch_results EXCEPT ![q] = res]
    /\ task' = [task EXCEPT ![q] = "done"]
    /\ finished' = Append(finished, q)
    /\ running' = 0

\* rag_query_fn raises e.
RagRaise(q, e) ==
    /\ task[q] = "rag"
    /\ fault' = [fault EXCEPT ![q] = e]
    /\ TaskReturn(q, ErrorResult(questions[q], e))
    /\ UNCHANGED <<questions, batch_size, i, results, rag_response, evaluation,
                   pc, pbar, notEvalVars>>

\* evaluator_model returns text: it is parsed and the result dict is returned.
JudgeReturn(q, text) ==
    /\ task[q] = "judge"
    /\ evaluation' = [evaluation EXCEPT ![q] = text]
    /\ TaskReturn(q, OkResult(questions[q], rag_response[q], parse_evaluation(text)))
    /\ UNCHANGED <<questions, batch_size, i, results, rag_response, fault, pc, pbar,
                   notEvalVars>>

\* evaluator_model raises e.
JudgeRaise(q, e) ==
    /\ task[q] = "judge"
    /\ fault' = [fault EXCEPT ![q] = e]
    /\ TaskReturn(q, ErrorResult(questions[q], e))
    /\ UNCHANGED <<questions, batch_size, i, results, rag_response, evaluation,
                   pc, pbar, notEvalVars>>

----------------------------------------------------------------------------
\* evaluate_batch: the loop.

\* One step of the for loop: the next batch is cut and gather makes one task per
\* row; or the range is exhausted and results is returned.
BatchStart ==
    /\ pc = "loop"
    /\ i < Len(questions)
    /\ task' = [q \in DOMAIN task |-> IF q \in BatchIdx THEN "ready" ELSE task[q]]
    /\ finished' = <<>>
    /\ pc' = "await"
    /\ UNCHANGED <<questions, batch_size, i, results, rag_response, evaluation, fault,
                   batch_results, running, pbar, notEvalVars>>

\* Gathered with the bug of collecting the results as the tasks complete (as
\* asyncio.as_completed does).
Gathered_as_completed == [k \in 1..Len(finished) |-> batch_results[finished[k]]]

\* What `await asyncio.gather(...)` evaluates to: the results of the batch's
\* tasks in the order of the batch.
Gathered == [k \in 1..Cardinality(BatchIdx) |-> batch_results[i + k]]

\* PbarAfterBatch with the count advanced by batch_size, not by len(batch).
PbarAfterBatch_full_batch ==
    IF pbar.present /\ Len(questions) > 0
    THEN [present |-> TRUE,
          n |-> pbar.n + batch_size,
          desc |-> <<(i \div batch_size) + 1, (Len(questions) \div batch_size) + 1>>]
    ELSE pbar

\* pbar.update(len(batch)); pbar.set_description(...)
PbarAfterBatch ==
    IF pbar.present /\ Len(questions) > 0   \* tqdm.__bool__ is total > 0
    THEN [present |-> TRUE,
          n |-> pbar.n + Cardinality(BatchIdx),
          desc |-> <<(i \div batch_size) + 1, (Len(questions) \div batch_size) + 1>>]
    ELSE pbar

\* BatchGathered with `results = batch_results` in place of results.extend.
BatchGathered_overwrites ==
    /\ pc = "await"
    /\ \A q \in BatchIdx : task[q] = "done"
    /\ results' = Gathered
    /\ pbar' = PbarAfterBatch
    /\ i' = i + batch_size
    /\ pc' = "loop"
    /\ UNCHANGED <<questions, batch_size, task, rag_response, evaluation, fault,
                   batch_results, finished, running, notEvalVars>>

\* Every task of the batch is done: gather resumes evaluate_batch, which extends
\* results, updates the bar and goes to the next iteration.
BatchGathered ==
    /\ pc = "await"
    /\ \A q \in BatchIdx : task[q] = "done"
    /\ results' = results \o Gathered
    /\ pbar' = PbarAfterBatch
    /\ i' = i + batch_size
    /\ pc' = "loop"
    /\ UNCHANGED <<questions, batch_size, task, rag_response, evaluation, fault,
                   batch_results, finished, running, notEvalVars>>

\* return results
BatchReturn ==
    /\ pc = "loop"
    /\ i >= Len(questions)
    /\ pc' = "done"
    /\ UNCHANGED <<questions, batch_size, i, results, task, rag_response, evaluation,
                   fault, batch_results, finished, running, pbar, notEvalVars>>

\* The parts of the program that a specification does not run.
ParseIdle ==
    /\ ptext = <<>>
    /\ presult = [score |-> <<>>, explanation |-> <<>>]
    /\ ppc = "idle"

RetryIdle ==
    /\ attempt = 0
    /\ retry_delay = 0
    /\ error_message = <<>>
    /\ wait_time = 0
    /\ rpc = "idle"
    /\ invocations = 0
    /\ waits = 0
    /\ other_failures = 0
    /\ outcome = [kind |-> "none", value |-> <<>>]

RunIdle ==
    /\ test_set_exists = FALSE
    /\ arg_batch_size = 1
    /\ num_tests = <<>>
    /\ csv_rows = 0
    /\ results_dir = "absent"
    /\ epc = "idle"
    /\ csv_read = FALSE
    /\ rag_calls = 0
    /\ run_results = <<>>
    /\ average_score = [num |-> 0, den |-> 0]
    /\ report = "none"
    /\ run_pbar = [created |-> FALSE, closes |-> 0]
    /\ run_error = "none"

MainIdle ==
    /\ files = 0
    /\ fstate = <<>>
    /\ fattempt = <<>>
    /\ parsed_data = <<>>
    /\ done_order = <<>>
    /\ wait_seen = <<>>
    /\ futures = <<>>
    /\ extended = 0
    /\ main_data = <<>>
    /\ output_csv = <<"#unset">>
    /\ mpc = "idle"
    /\ main_error = "none"

DashIdle ==
    /\ confirm_delete = FALSE
    /\ csv_files = {}
    /\ last_click = "idle"
    /\ cleared = [result |-> "none", removed |-> {}]

GenIdle ==
    /\ response_lines = <<>>
    /\ data = <<>>
    /\ gpc = "idle"

EvalIdle ==
    /\ questions = <<>>
    /\ batch_size = 1
    /\ i = 0
    /\ results = <<>>
    /\ task = <<>>
    /\ rag_response = <<>>
    /\ evaluation = <<>>
    /\ fault = <<>>
    /\ batch_results = <<>>
    /\ finished = <<>>
    /\ running = 0
    /\ pc = "idle"
    /\ pbar = NoPbar

\* evaluate_batch is called.
EvalInit ==
    /\ questions \in {Questions(n) : n \in 0..MaxQuestions}
    /\ batch_size \in 1..MaxBatch
    /\ i = 0
    /\ results = <<>>
    /\ task = [q \in DOMAIN questions |-> "none"]
    /\ rag_response = [q \in DOMAIN questions |-> Unset]
    /\ evaluation = [q \in DOMAIN questions |-> Unset]
    /\ fault = [q \in DOMAIN questions |-> "none"]
    /\ batch_results = [q \in DOMAIN questions |-> Unset]
    /\ finished = <<>>
    /\ running = 0
    /\ pc = "loop"
    /\ pbar \in {NoPbar, NewPbar}

Init == EvalInit /\ ParseIdle /\ RetryIdle /\ RunIdle /\ GenIdle /\ MainIdle /\ DashIdle

Next ==
    \/ BatchStart
    \/ \E q \in DOMAIN questions : TaskRun(q)
    \/ \E q \in DOMAIN questions, r \in RagResponses : RagReturn(q, r)
    \/ \E q \in DOMAIN questions, e \in RagFaults : RagRaise(q, e)
    \/ \E q \in DOMAIN questions, t \in JudgeTexts : JudgeReturn(q, t)
    \/ \E q \in DOMAIN questions, e \in JudgeFaults : JudgeRaise(q, e)
    \/ BatchGathered
    \/ BatchReturn

Spec == Init /\ [][Next]_vars

----------------------------------------------------------------------------
\* TestGenerator.create_tests: the retry loop around chain.invoke.

max_retries == 5
INITIAL_RETRY_DELAY == 2
DEFAULT_WAIT == 60

RATE_LIMIT == <<"rate_limit_exceeded">>
TRY_AGAIN == <<"Please try again in">>

\* The tokens of an error text: the two markers, a digit, the full stop, a unit
\* letter and a blank.
ErrAlphabet == {"rate_limit_exceeded", "Please try again in", "2", ".", "s", " "}

\* str(e) of the exceptions chain.invoke raises.
ErrorMessages == SeqsUpTo(ErrAlphabet, MaxErrLen)

\* What chain.invoke returns when it succeeds.
Responses == {"response_a", "response_b"}

DigitVal(t) == CASE t = "0" -> 0 [] t = "1" -> 1 [] t = "2" -> 2 [] OTHER -> 0

\* The number a string of digits denotes.
RECURSIVE DecimalOf(_)
DecimalOf(s) ==
    IF s = <<>> THEN 0
    ELSE 10 * DecimalOf(SubSeq(s, 1, Len(s) - 1)) + DigitVal(s[Len(s)])

\* Whether float(s) succeeds: over ErrAlphabet, and with every full stop cut
\* off before, exactly on a non-empty string of digits.
FloatParses(s) == s # <<>> /\ \A k \in 1..Len(s) : IsDigit(s[k])

\* 'rate_limit_exceeded' in error_message
IsRateLimit(msg) == Contains(msg, RATE_LIMIT)

\* The rate-limit branch: wait_time = 60, replaced by
\* float(error_message.split('Please try again in')[1].split('.')[0].strip())
\* when the marker is there and float() does not raise.
RateLimitWait(msg) ==
    IF Contains(msg, TRY_AGAIN)
    THEN LET wait_time_str == Split(Split(msg, TRY_AGAIN)[2], <<".">>)[1]
         IN  IF FloatParses(Strip(wait_time_str))
             THEN DecimalOf(Strip(wait_time_str))
             ELSE DEFAULT_WAIT
    ELSE DEFAULT_WAIT

\* The argument of time.sleep in the except clause.
WaitFor(msg, delay) == IF IsRateLimit(msg) THEN RateLimitWait(msg) ELSE delay

\* NextDelay with the bug of doubling in both branches of the except clause.
NextDelay_always(msg, delay) == delay * 2

\* retry_delay after the except clause: doubled in the else branch only.
NextDelay(msg, delay) == IF IsRateLimit(msg) THEN delay ELSE delay * 2

\* MoreAttempts with the bug of a range one too long.
MoreAttempts_one_more(a) == a <= max_retries

\* Whether range(max_retries) has an attempt number a.
MoreAttempts(a) == a < max_retries

\* chain.invoke returns: `return response`.
CallSucceeds(resp) ==
    /\ rpc = "call"
    /\ invocations' = invocations + 1
    /\ outcome' = [kind |-> "return", value |-> resp]
    /\ rpc' = "returned"
    /\ UNCHANGED <<attempt, retry_delay, error_message, wait_time, waits, other_failures,
                   notRetryVars>>

\* CallFails with the bug of a missing time.sleep: the next attempt follows at once.
CallFails_no_sleep(msg) ==
    /\ rpc = "call"
    /\ invocations' = invocations + 1
    /\ error_message' = <<>>
    /\ wait_time' = 0
    /\ other_failures' = IF IsRateLimit(msg) THEN other_failures ELSE other_failures + 1
    /\ retry_delay' = NextDelay(msg, retry_delay)
    /\ attempt' = attempt + 1
    /\ rpc' = IF MoreAttempts(attempt + 1) THEN "call" ELSE "raised"
    /\ outcome' = IF MoreAttempts(attempt + 1) THEN outcome
                  ELSE [kind |-> "raise",
                        value |-> <<"Failed to complete after ", ToString(max_retries),
                                    " attempts.">>]
    /\ UNCHANGED <<waits, notRetryVars>>

\* chain.invoke raises an exception with text msg: the except clause works out
\* the wait and calls time.sleep.
CallFails(msg) ==
    /\ rpc = "call"
    /\ invocations' = invocations + 1
    /\ error_message' = msg
    /\ wait_time' = WaitFor(msg, retry_delay)
    /\ other_failures' = IF IsRateLimit(msg) THEN other_failures ELSE other_failures + 1
    /\ rpc' = "sleep"
    /\ UNCHANGED <<attempt, retry_delay, waits, outcome, notRetryVars>>

\* time.sleep returns: the else branch doubles retry_delay and the loop goes to
\* its next attempt.  (error_message and wait_time are assigned again before
\* they are read again; the model forgets them here.)
SleepEndsRetry ==
    /\ rpc = "sleep"
    /\ MoreAttempts(attempt + 1)
    /\ waits' = waits + 1
    /\ retry_delay' = NextDelay(error_message, retry_delay)
    /\ attempt' = attempt + 1
    /\ error_message' = <<>>
    /\ wait_time' = 0
    /\ rpc' = "call"
    /\ UNCHANGED <<invocations, other_failures, outcome, notRetryVars>>

\* time.sleep returns and the range is exhausted:
\* raise Exception(f"Failed to complete after {max_retries} attempts.")
SleepEndsRaise ==
    /\ rpc = "sleep"
    /\ ~MoreAttempts(attempt + 1)
    /\ waits' = waits + 1
    /\ retry_delay' = NextDelay(error_message, retry_delay)
    /\ attempt' = attempt + 1
    /\ error_message' = <<>>
    /\ wait_time' = 0
    /\ rpc' = "raised"
    /\ outcome' = [kind |-> "raise",
                   value |-> <<"Failed to complete after ", ToString(max_retries),
                               " attempts.">>]
    /\ UNCHANGED <<invocations, other_failures, notRetryVars>>

\* create_tests is called.
RetryInit ==
    /\ attempt = 0
    /\ retry_delay = INITIAL_RETRY_DELAY
    /\ error_message = <<>>
    /\ wait_time = 0
    /\ rpc = "call"
    /\ invocations = 0
    /\ waits = 0
    /\ other_failures = 0
    /\ outcome = [kind |-> "none", value |-> <<>>]

InitRetry == EvalIdle /\ ParseIdle /\ RunIdle /\ GenIdle /\ RetryInit /\ MainIdle /\ DashIdle

NextRetry ==
    \/ \E resp \in Responses : CallSucceeds(resp)
    \/ \E msg \in ErrorMessages : CallFails(msg)
    \/ SleepEndsRetry
    \/ SleepEndsRaise

SpecRetry == InitRetry /\ [][NextRetry]_vars

----------------------------------------------------------------------------
\* parse_evaluation applied to one text.

\* The tokens of a judge's text.
ParseAlphabet == {"Score", "Explanation", ":", " ", "\n", "0", "1", "2", "w"}

\* The values parse_evaluation is handed: every text up to MaxTextLen tokens,
\* None, and a value that is no string.
ParseInputs == SeqsUpTo(ParseAlphabet, MaxTextLen) \cup {NoneValue, NonStrValue}

\* The exception the try block of parse_evaluation raises on a value: one that
\* is no string has no .strip (AttributeError); a string raises nothing (the
\* IndexError of a line without a colon is caught inside the loop).
TryFault(text) == IF text = NonStrValue THEN "AttributeError" ELSE "none"

\* The classes of the exceptions in this model, all subclasses of Exception.
ExceptionSubclasses == {"AttributeError", "IndexError", "KeyError", "ConnectionError"}

\* Caught with the bug of a clause that names IndexError only.
Caught_index_only(e) == e = "IndexError"

\* `except Exception as e`: whether the clause catches e.
Caught(e) == e \in ExceptionSubclasses

\* score, explanation = parse_evaluation(ptext): it returns, or a fault that its
\* except clause does not catch reaches the caller.
Parse ==
    /\ ppc = "input"
    /\ IF TryFault(ptext) # "none" /\ ~Caught(TryFault(ptext))
       THEN /\ ppc' = "raised"
            /\ presult' = presult
       ELSE /\ presult' = parse_evaluation(ptext)
            /\ ppc' = "parsed"
    /\ UNCHANGED <<ptext, notParseVars>>

ParseInit ==
    /\ ptext \in ParseInputs
    /\ presult = [score |-> <<>>, explanation |-> <<>>]
    /\ ppc = "input"

InitParse == EvalIdle /\ RetryIdle /\ RunIdle /\ GenIdle /\ ParseInit /\ MainIdle /\ DashIdle

NextParse == Parse

SpecParse == InitParse /\ [][NextParse]_vars

----------------------------------------------------------------------------
\* evaluate_rag_system: the run over a test-set file.
\*
\* The call of evaluate_batch is modelled by what it hands back: one result per
\* question, in order.  The averaging code reads only result['score'] and
\* accepts any value there, so a result is modelled by its score, and the
\* scores range over "0", "1" and a value that is neither.

MaxRows == 5
MaxNumTests == 2

NoNumTests == <<>>
NumTestsValues == {NoNumTests} \cup {<<n>> : n \in 0..MaxNumTests}
ScoreValues == {"0", "1", "invalid"}

\* PreconditionError without the check of num_tests.
PreconditionError_no_num_tests(exists, bs, nt) ==
    IF ~exists THEN "FileNotFoundError"
    ELSE IF bs < 1 THEN "ValueError: batch_size must be at least 1"
    ELSE "none"

\* The input validation: the error it raises, or "none".
PreconditionError(exists, bs, nt) ==
    IF ~exists THEN "FileNotFoundError"
    ELSE IF bs < 1 THEN "ValueError: batch_size must be at least 1"
    ELSE IF nt # NoNumTests /\ nt[1] < 1 THEN "ValueError: num_tests must be at least 1"
    ELSE "none"

\* len(test_df.head(num_tests)) for a frame of `rows` rows.
HeadRows(rows, nt) == IF nt = NoNumTests THEN rows ELSE Min(rows, nt[1])

\* int(score) for the scores "0" and "1".
IntOf(score) == IF score = "1" THEN 1 ELSE 0

\* sum(int(result['score']) for result in results if result['score'] in ['0', '1'])
RECURSIVE TotalScore(_)
TotalScore(rs) ==
    IF rs = <<>> THEN 0
    ELSE (IF Head(rs) \in {"0", "1"} THEN IntOf(Head(rs)) ELSE 0) + TotalScore(Tail(rs))

\* ValidScores with every result counted, a score that is no "0" or "1" too.
ValidScores_all(rs) == Len(rs)

\* sum(1 for result in results if result['score'] in ['0', '1'])
RECURSIVE ValidScores(_)
ValidScores(rs) ==
    IF rs = <<>> THEN 0
    ELSE (IF Head(rs) \in {"0", "1"} THEN 1 ELSE 0) + ValidScores(Tail(rs))

\* (total_score / valid_scores) * 100 if valid_scores > 0 else 0.0, as a fraction.
AverageScore(rs) ==
    IF ValidScores(rs) > 0
    THEN [num |-> TotalScore(rs) * 100, den |-> ValidScores(rs)]
    ELSE [num |-> 0, den |-> 1]

\* Lines 168-173: the three checks, in their order.
Validate ==
    /\ epc = "validate"
    /\ LET e == PreconditionError(test_set_exists, arg_batch_size, num_tests)
       IN  IF e # "none"
           THEN /\ run_error' = e
                /\ epc' = "raised"
           ELSE /\ run_error' = run_error
                /\ epc' = "read"
    /\ UNCHANGED <<test_set_exists, arg_batch_size, num_tests, csv_rows, results_dir,
                   csv_read, rag_calls, run_results, average_score, report, run_pbar,
                   notRunVars>>

\* Lines 176-185: read the file, keep the first num_tests rows, create the bar.
ReadTestSet ==
    /\ epc = "read"
    /\ csv_read' = TRUE
    /\ run_pbar' = [created |-> TRUE, closes |-> 0]
    /\ epc' = "evaluate"
    /\ UNCHANGED <<test_set_exists, arg_batch_size, num_tests, csv_rows, results_dir,
                   rag_calls, run_results, average_score, report, run_error, notRunVars>>

\* Lines 188-196: evaluate_batch hands back one result per question.
EvaluateReturns ==
    /\ epc = "evaluate"
    /\ \E rs \in [1..HeadRows(csv_rows, num_tests) -> ScoreValues] :
          run_results' = rs
    /\ rag_calls' = HeadRows(csv_rows, num_tests)
    /\ epc' = "aggregate"
    /\ UNCHANGED <<test_set_exists, arg_batch_size, num_tests, csv_rows, results_dir,
                   csv_read, average_score, report, run_pbar, run_error, notRunVars>>

\* Lines 188-196, 229-233: a row that lacks a column makes the except clause of
\* process_question raise KeyError, which leaves evaluate_batch and asyncio.run;
\* `except Exception` re-raises it and `finally` closes the bar.
EvaluateRaises ==
    /\ epc = "evaluate"
    /\ HeadRows(csv_rows, num_tests) > 0
    /\ rag_calls' = 1
    /\ run_error' = "KeyError"
    /\ run_pbar' = [run_pbar EXCEPT !.closes = @ + 1]
    /\ epc' = "raised"
    /\ UNCHANGED <<test_set_exists, arg_batch_size, num_tests, csv_rows, results_dir,
                   csv_read, run_results, average_score, report, notRunVars>>

\* Lines 198-211: the average.
Aggregate ==
    /\ epc = "aggregate"
    /\ average_score' = AverageScore(run_results)
    /\ epc' = "save"
    /\ UNCHANGED <<test_set_exists, arg_batch_size, num_tests, csv_rows, results_dir,
                   csv_read, rag_calls, run_results, report, run_pbar, run_error,
                   notRunVars>>

\* Save without the finally clause: the bar is closed on the success path only.
Save_no_finally ==
    /\ epc = "save"
    /\ results_dir' = IF results_dir = "absent" THEN "created" ELSE results_dir
    /\ \E opened \in BOOLEAN :
          IF ~opened
          THEN /\ report' = report
               /\ run_error' = "OSError"
               /\ run_pbar' = run_pbar
               /\ epc' = "raised"
          ELSE IF run_results = <<>>
          THEN /\ report' = "empty"
               /\ run_error' = "IndexError"
               /\ run_pbar' = run_pbar
               /\ epc' = "raised"
          ELSE /\ report' = "written"
               /\ run_error' = run_error
               /\ run_pbar' = [run_pbar EXCEPT !.closes = @ + 1]
               /\ epc' = "returned"
    /\ UNCHANGED <<test_set_exists, arg_batch_size, num_tests, csv_rows, csv_read,
                   rag_calls, run_results, average_score, notRunVars>>

\* Lines 213-233: create the directory, open the report, write it, close the
\* bar, return.  open() may raise OSError; results[0] raises IndexError on an
\* empty list, after the file was opened; both are re-raised and the bar is
\* closed by the finally clause.
Save ==
    /\ epc = "save"
    /\ results_dir' = IF results_dir = "absent" THEN "created" ELSE results_dir
    /\ \E opened \in BOOLEAN :
          IF ~opened
          THEN /\ report' = report
               /\ run_error' = "OSError"
               /\ run_pbar' = [run_pbar EXCEPT !.closes = @ + 1]
               /\ epc' = "raised"
          ELSE IF run_results = <<>>
          THEN /\ report' = "empty"
               /\ run_error' = "IndexError"
               /\ run_pbar' = [run_pbar EXCEPT !.closes = @ + 1]
               /\ epc' = "raised"
          ELSE /\ report' = "written"
               /\ run_error' = run_error
               /\ run_pbar' = [run_pbar EXCEPT !.closes = @ + 2]
               /\ epc' = "returned"
    /\ UNCHANGED <<test_set_exists, arg_batch_size, num_tests, csv_rows, csv_read,
                   rag_calls, run_results, average_score, notRunVars>>

RunInit ==
    /\ test_set_exists \in BOOLEAN
    /\ arg_batch_size \in 0..MaxBatch
    /\ num_tests \in NumTestsValues
    /\ csv_rows \in 0..MaxRows
    /\ test_set_exists = FALSE => csv_rows = 0
    /\ results_dir \in {"absent", "present"}
    /\ epc = "validate"
    /\ csv_read = FALSE
    /\ rag_calls = 0
    /\ run_results = <<>>
    /\ average_score = [num |-> 0, den |-> 0]
    /\ report = "none"
    /\ run_pbar = [created |-> FALSE, closes |-> 0]
    /\ run_error = "none"

InitRun == EvalIdle /\ ParseIdle /\ RetryIdle /\ GenIdle /\ RunInit /\ MainIdle /\ DashIdle

NextRun ==
    \/ Validate
    \/ ReadTestSet
    \/ EvaluateReturns
    \/ EvaluateRaises
    \/ Aggregate
    \/ Save

SpecRun == InitRun /\ [][NextRun]_vars

----------------------------------------------------------------------------
\* TestGenerator.parse_response: the parser of the generator's model response.
\*
\* The response is a string of tokens: "id", "question_" and "answer_" are the
\* three line prefixes without their colon, "1" and "2" are question numbers,
\* "7" and "8" are ids, "w" is a word of a question or an answer.

MaxLines == 4

\* The lines a response is made of.
GenLines ==
    { <<"id", ":", " ", "7">>,
      <<"id", ":", " ", "8">>,
      <<"question_", "1", ":", " ", "w">>,
      <<"question_", "2", ":", " ", "w">>,
      <<"question_", "1", ":">>,
      <<"question_", "1">>,
      <<"answer_", "1", ":", " ", "w">>,
      <<"answer_", "2", ":", " ", "w">>,
      <<"answer_", ":", " ", "w">>,
      <<"w">> }

\* '\n'.join(lines)
RECURSIVE JoinLines(_)
JoinLines(lines) ==
    IF lines = <<>> THEN <<>>
    ELSE IF Len(lines) = 1 THEN lines[1]
    ELSE lines[1] \o <<"\n">> \o JoinLines(Tail(lines))

\* str.startswith
StartsWith(s, prefix) ==
    Len(s) >= Len(prefix) /\ SubSeq(s, 1, Len(prefix)) = prefix

\* str.replace(old, ''): every occurrence of the run `old` removed.
RECURSIVE RemoveAll(_, _)
RemoveAll(s, old) ==
    LET k == Find(s, old)
    IN  IF k = 0 THEN s
        ELSE SubSeq(s, 1, k - 1) \o RemoveAll(SubSeq(s, k + Len(old), Len(s)), old)

\* One pass of the loop body (lines 97-114) over a line.  st holds the locals
\* current_id, current_question_num, current_question, the list data, and the
\* exception raised ("none" while there is none).
ParseResponseLine(st, line) ==
    IF StartsWith(line, <<"id", ":">>)
    THEN [st EXCEPT !.current_id = Strip(RemoveAll(line, <<"id", ":">>))]
    ELSE IF StartsWith(line, <<"question_">>)
    THEN LET parts == Split1(line, <<":">>)
         IN  IF Len(parts) < 2
             THEN [st EXCEPT !.error = "IndexError"]
             ELSE [st EXCEPT
                     !.current_question_num = Strip(RemoveAll(parts[1], <<"question_">>)),
                     !.current_question = Strip(parts[2])]
    ELSE IF StartsWith(line, <<"answer_">>)
    THEN LET parts == Split1(line, <<":">>)
             answer_num == Strip(RemoveAll(parts[1], <<"answer_">>))
         IN  IF answer_num = st.current_question_num
             THEN IF Len(parts) < 2
                  THEN [st EXCEPT !.error = "IndexError"]
                  ELSE [st EXCEPT
                          !.data = Append(@, [id |-> st.current_id,
                                              question_num |-> st.current_question_num,
                                              question |-> st.current_question,
                                              answer |-> Strip(parts[2])]),
                          !.current_question = <<>>]
             ELSE st
    ELSE st

\* for line in lines: ...; an exception ends the loop.
RECURSIVE ParseResponseLines(_, _)
ParseResponseLines(st, lines) ==
    IF lines = <<>> \/ st.error # "none" THEN st
    ELSE ParseResponseLines(ParseResponseLine(st, Head(lines)), Tail(lines))

\* parse_response(response_text): the list data and the exception raised.
parse_response(response_text) ==
    LET lines == Split(Strip(response_text), <<"\n">>)
        st0 == [current_id |-> <<>>, current_question_num |-> <<>>,
                current_question |-> <<>>, data |-> <<>>, error |-> "none"]
    IN  ParseResponseLines(st0, lines)

\* parsed_data = self.parse_response(response.content.strip())
ParseResponse ==
    /\ gpc = "input"
    /\ LET r == parse_response(Strip(JoinLines(response_lines)))
       IN  IF r.error = "none"
           THEN /\ data' = r.data
                /\ gpc' = "returned"
           ELSE /\ data' = data
                /\ gpc' = "raised"
    /\ UNCHANGED <<response_lines, notGenVars>>

GenInit ==
    /\ response_lines \in SeqsUpTo(GenLines, MaxLines)
    /\ data = <<>>
    /\ gpc = "input"

InitGen == EvalIdle /\ ParseIdle /\ RetryIdle /\ RunIdle /\ GenInit /\ MainIdle /\ DashIdle

NextGen == ParseResponse

SpecGen == InitGen /\ [][NextGen]_vars

----------------------------------------------------------------------------
\* TestGenerator.main: the files of the input folder are handed to a pool of
\* max_workers threads by executor.map; the thread that runs main takes the
\* results in input order, extends `data` with them and saves the CSV.
\*
\* A file's process_file call is modelled by its create_tests loop (call,
\* wait, call, ...) and by what parse_response hands back: a list of test
\* cases, or IndexError.

MaxFiles == 2
MaxCases == 1

max_workers == 2

\* The test cases of file d when its response holds n of them.
Cases(d, n) == [k \in 1..n |-> [id |-> d, question_num |-> k, filename |-> d]]

\* The files whose process_file call is running in a pool thread.
RunningFiles == {d \in DOMAIN fstate : fstate[d] \in {"call", "sleep"}}

\* CanRun with time.sleep holding up every thread, not only its own.
CanRun_nobody_sleeps(d) == \A e \in DOMAIN fstate : e # d => fstate[e] # "sleep"

\* Whether the pool thread of file d can take its next step: a thread runs
\* on its own, and time.sleep in another thread does not hold it up.
CanRun(d) == d \in DOMAIN fstate

\* A free pool thread takes the next work item of the queue.
FileStart(d) ==
    /\ fstate[d] = "queued"
    /\ \A e \in 1..(d - 1) : fstate[e] # "queued"
    /\ Cardinality(RunningFiles) < max_workers
    /\ CanRun(d)
    /\ fstate' = [fstate EXCEPT ![d] = "call"]
    /\ wait_seen' = [wait_seen EXCEPT
                       ![d] = {<<e, fattempt[e]>> : e \in {x \in DOMAIN fstate : fstate[x] = "sleep"}}]
    /\ UNCHANGED <<files, fattempt, parsed_data, done_order, futures, extended,
                   main_data, output_csv, mpc, main_error, notMainVars>>

\* FileReturns with the pool thread appending its test cases to `data` itself.
FileReturns_appends(d, n) ==
    /\ fstate[d] = "call"
    /\ CanRun(d)
    /\ fstate' = [fstate EXCEPT ![d] = "done"]
    /\ parsed_data' = [parsed_data EXCEPT ![d] = Cases(d, n)]
    /\ done_order' = Append(done_order, d)
    /\ main_data' = main_data \o Cases(d, n)
    /\ UNCHANGED <<files, fattempt, wait_seen, futures, extended, output_csv,
                   mpc, main_error, notMainVars>>

\* chain.invoke returned, parse_response gave n test cases, process_file returns.
FileReturns(d, n) ==
    /\ fstate[d] = "call"
    /\ CanRun(d)
    /\ fstate' = [fstate EXCEPT ![d] = "done"]
    /\ parsed_data' = [parsed_data EXCEPT ![d] = Cases(d, n)]
    /\ done_order' = Append(done_order, d)
    /\ UNCHANGED <<files, fattempt, wait_seen, futures, extended, main_data,
                   output_csv, mpc, main_error, notMainVars>>

\* chain.invoke returned and parse_response raised IndexError (a question line
\* without a colon): process_file raises.
FileParseRaises(d) ==
    /\ fstate[d] = "call"
    /\ CanRun(d)
    /\ fstate' = [fstate EXCEPT ![d] = "raised"]
    /\ done_order' = Append(done_order, d)
    /\ UNCHANGED <<files, fattempt, parsed_data, wait_seen, futures, extended,
                   main_data, output_csv, mpc, main_error, notMainVars>>

\* chain.invoke raised: create_tests goes to sleep in the pool thread.
FileCallFails(d) ==
    /\ fstate[d] = "call"
    /\ CanRun(d)
    /\ fstate' = [fstate EXCEPT ![d] = "sleep"]
    /\ UNCHANGED <<files, fattempt, parsed_data, done_order, wait_seen, futures,
                   extended, main_data, output_csv, mpc, main_error, notMainVars>>

\* time.sleep returned and the loop has another attempt.
FileSleepEndsRetry(d) ==
    /\ fstate[d] = "sleep"
    /\ CanRun(d)
    /\ MoreAttempts(fattempt[d])
    /\ fattempt' = [fattempt EXCEPT ![d] = @ + 1]
    /\ fstate' = [fstate EXCEPT ![d] = "call"]
    /\ UNCHANGED <<files, parsed_data, done_order, wait_seen, futures, extended,
                   main_data, output_csv, mpc, main_error, notMainVars>>

\* time.sleep returned after the last attempt: create_tests, and process_file
\* with it, raises.
FileSleepEndsRaise(d) ==
    /\ fstate[d] = "sleep"
    /\ CanRun(d)
    /\ ~MoreAttempts(fattempt[d])
    /\ fstate' = [fstate EXCEPT ![d] = "raised"]
    /\ done_order' = Append(done_order, d)
    /\ UNCHANGED <<files, fattempt, parsed_data, wait_seen, futures, extended,
                   main_data, output_csv, mpc, main_error, notMainVars>>

\* list(tqdm(executor.map(...))) takes the next result, in input order, once
\* that file's call has returned.
MainCollect ==
    /\ mpc = "map"
    /\ Len(futures) < files
    /\ fstate[Len(futures) + 1] = "done"
    /\ futures' = Append(futures, parsed_data[Len(futures) + 1])
    /\ UNCHANGED <<files, fstate, fattempt, parsed_data, done_order, wait_seen,
                   extended, main_data, output_csv, mpc, main_error, notMainVars>>

\* The next result in input order is an exception: the iterator of
\* executor.map raises it inside list(...), outside the try of the for loop;
\* it cancels the calls still queued, and the with statement waits for the
\* running ones.
MainCollectRaises ==
    /\ mpc = "map"
    /\ Len(futures) < files
    /\ fstate[Len(futures) + 1] = "raised"
    /\ fstate' = [d \in DOMAIN fstate |->
                    IF fstate[d] = "queued" THEN "cancelled" ELSE fstate[d]]
    /\ main_error' = "Exception"
    /\ mpc' = "shutdown"
    /\ UNCHANGED <<files, fattempt, parsed_data, done_order, wait_seen, futures,
                   extended, main_data, output_csv, notMainVars>>

\* executor.shutdown(wait=True) returns; the exception leaves main.
MainRaises ==
    /\ mpc = "shutdown"
    /\ RunningFiles = {}
    /\ mpc' = "raised"
    /\ UNCHANGED <<files, fstate, fattempt, parsed_data, done_order, wait_seen,
                   futures, extended, main_data, output_csv, main_error, notMainVars>>

\* list(...) has every result: the for loop starts.
MainListed ==
    /\ mpc = "map"
    /\ Len(futures) = files
    /\ mpc' = "extend"
    /\ UNCHANGED <<files, fstate, fattempt, parsed_data, done_order, wait_seen,
                   futures, extended, main_data, output_csv, main_error, notMainVars>>

\* for parsed_data in futures: data.extend(parsed_data)
MainExtend ==
    /\ mpc = "extend"
    /\ extended < Len(futures)
    /\ main_data' = main_data \o futures[extended + 1]
    /\ extended' = extended + 1
    /\ UNCHANGED <<files, fstate, fattempt, parsed_data, done_order, wait_seen,
                   futures, output_csv, mpc, main_error, notMainVars>>

\* The loop is over: the with statement ends and the CSV is saved.
MainSave ==
    /\ mpc = "extend"
    /\ extended = Len(futures)
    /\ output_csv' = main_data
    /\ mpc' = "saved"
    /\ UNCHANGED <<files, fstate, fattempt, parsed_data, done_order, wait_seen,
                   futures, extended, main_data, main_error, notMainVars>>

MainInit ==
    /\ files \in 0..MaxFiles
    /\ fstate = [d \in 1..files |-> "queued"]
    /\ fattempt = [d \in 1..files |-> 0]
    /\ parsed_data = [d \in 1..files |-> Unset]
    /\ done_order = <<>>
    /\ wait_seen = [d \in 1..files |-> {}]
    /\ futures = <<>>
    /\ extended = 0
    /\ main_data = <<>>
    /\ output_csv = Unset
    /\ mpc = "map"
    /\ main_error = "none"

InitMain == EvalIdle /\ ParseIdle /\ RetryIdle /\ RunIdle /\ GenIdle /\ DashIdle /\ MainInit

NextMain ==
    \/ \E d \in DOMAIN fstate :
          \/ FileStart(d)
          \/ \E n \in 0..MaxCases : FileReturns(d, n)
          \/ FileParseRaises(d)
          \/ FileCallFails(d)
          \/ FileSleepEndsRetry(d)
          \/ FileSleepEndsRaise(d)
    \/ MainCollect
    \/ MainCollectRaises
    \/ MainRaises
    \/ MainListed
    \/ MainExtend
    \/ MainSave

SpecMain == InitMain /\ [][NextMain]_vars

----------------------------------------------------------------------------
\* The dashboard script (streamlit): every click of a button runs the script
\* from the top with that button's st.button(...) returning True;
\* st.session_state lasts over the runs of one session.

MaxResultFiles == 4

ResultFiles == 1..MaxResultFiles
NotCalled == [result |-> "none", removed |-> {}]

\* ClickClear with the folder cleared at the first click.
ClickClear_deletes ==
    /\ ~confirm_delete
    /\ csv_files' = {}
    /\ confirm_delete' = FALSE
    /\ last_click' = "Clear Results Folder"
    /\ cleared' = [result |-> "ok", removed |-> csv_files]
    /\ UNCHANGED notDashVars

\* Lines 45-48: the button "Clear Results Folder" is shown while
\* confirm_delete is false; its click sets confirm_delete and reruns.
ClickClear ==
    /\ ~confirm_delete
    /\ confirm_delete' = TRUE
    /\ last_click' = "Clear Results Folder"
    /\ cleared' = NotCalled
    /\ UNCHANGED <<csv_files, notDashVars>>

\* Lines 54-58 and 21-29: "Yes, delete all" is shown while confirm_delete is
\* true; its click calls clear_results_folder, which removes the files one by
\* one.  Either all are removed, it returns True and confirm_delete is reset;
\* or os.remove raises at some file, the files before it are gone, it returns
\* False and confirm_delete stays.
ClickYes ==
    /\ confirm_delete
    /\ \E removed \in SUBSET csv_files :
          /\ csv_files' = csv_files \ removed
          /\ IF removed = csv_files
             THEN /\ cleared' = [result |-> "ok", removed |-> removed]
                  /\ confirm_delete' = FALSE
             ELSE /\ cleared' = [result |-> "failed", removed |-> removed]
                  /\ confirm_delete' = confirm_delete
    /\ last_click' = "Yes, delete all"
    /\ UNCHANGED notDashVars

\* Lines 60-62: "No, cancel".
ClickNo ==
    /\ confirm_delete
    /\ confirm_delete' = FALSE
    /\ last_click' = "No, cancel"
    /\ cleared' = NotCalled
    /\ UNCHANGED <<csv_files, notDashVars>>

\* Lines 68-69: "Refresh files" is always shown; its click reruns the script.
ClickRefresh ==
    /\ last_click' = "Refresh files"
    /\ cleared' = NotCalled
    /\ UNCHANGED <<confirm_delete, csv_files, notDashVars>>

\* Lines 42-43: a new session starts with confirm_delete false.
SessionStart ==
    /\ confirm_delete' = FALSE
    /\ last_click' = "none"
    /\ cleared' = NotCalled
    /\ UNCHANGED <<csv_files, notDashVars>>

\* An evaluation run saves a report into the results folder.
ReportSaved(f) ==
    /\ f \notin csv_files
    /\ csv_files' = csv_files \cup {f}
    /\ UNCHANGED <<confirm_delete, last_click, cleared, notDashVars>>

DashInit ==
    /\ confirm_delete = FALSE
    /\ csv_files \in SUBSET ResultFiles
    /\ last_click = "none"
    /\ cleared = NotCalled

InitDash == EvalIdle /\ ParseIdle /\ RetryIdle /\ RunIdle /\ GenIdle /\ MainIdle /\ DashInit

NextDash ==
    \/ ClickClear
    \/ ClickYes
    \/ ClickNo
    \/ ClickRefresh
    \/ SessionStart
    \/ \E f \in ResultFiles : ReportSaved(f)

SpecDash == InitDash /\ [][NextDash]_vars

----------------------------------------------------------------------------
\* Claims about evaluate_batch.

\* The tasks that were created and have not returned.
InFlight == {q \in DOMAIN questions : task[q] \in {"ready", "rag", "judge"}}
\* The tasks that are inside a call of rag_query_fn or evaluator_model.
InCall == {q \in DOMAIN questions : task[q] \in {"rag", "judge"}}
\* The batch (from 0) a question index belongs to.
BatchOf(q) == (q - 1) \div batch_size

\* C1: evaluate_batch returns exactly N results for N test cases, one per test
\* case and none twice, and the k-th result carries the question_id and
\* question_num of the k-th test case, in whatever order the tasks of a batch
\* finished.  (While it runs, results is the same for the questions gathered so
\* far.)
C1_ResultsMatchInput ==
    /\ Len(results) <= Len(questions)
    /\ \A k \in 1..Len(results) :
          /\ results[k].question_id = questions[k].id
          /\ results[k].question_num = questions[k].question_num
    /\ \A j, k \in 1..Len(results) :
          j # k => <<results[j].question_id, results[j].question_num>>
                   # <<results[k].question_id, results[k].question_num>>
    /\ pc = "done" => Len(results) = Len(questions)

\* C1's case: a run over three test cases in batches of two (a full batch and a
\* partial one) has returned.
C1_Witness ==
    /\ pc = "done"
    /\ Len(questions) = 3
    /\ batch_size = 2
    /\ Len(results) = 3

\* C2: a fault of rag_query_fn or evaluator_model in one question gives that
\* question the result with rag_response "ERROR", score "0" and an explanation
\* naming the fault; every other question has the result its own responses
\* give; and evaluate_batch returns a result for every question.
C2_FaultIsolated ==
    /\ \A q \in DOMAIN questions :
          task[q] = "done" =>
             IF fault[q] # "none"
             THEN /\ batch_results[q].rag_response = <<"ERROR">>
                  /\ batch_results[q].score = <<"0">>
                  /\ Contains(batch_results[q].explanation, <<fault[q]>>)
                  /\ batch_results[q].question_id = questions[q].id
                  /\ batch_results[q].question_num = questions[q].question_num
             ELSE batch_results[q] =
                     OkResult(questions[q], rag_response[q],
                              parse_evaluation(evaluation[q]))
    /\ \A k \in 1..Len(results) : results[k] = batch_results[k]
    /\ pc = "done" => Len(results) = Len(questions)

\* C2's case: a run over three questions has returned; the judge raised for the
\* second one only, and the first and the third were scored "1".
C2_Witness ==
    /\ pc = "done"
    /\ Len(questions) = 3
    /\ fault[2] = "KeyError"
    /\ fault[1] = "none" /\ fault[3] = "none"
    /\ results[1].score = <<"1">>
    /\ results[2].rag_response = <<"ERROR">>
    /\ results[3].score = <<"1">>

\* C3: no question of a later batch has started while a question of an earlier
\* batch has not produced its result, and at most batch_size evaluations are in
\* flight.
C3_BatchesSequential ==
    /\ \A p, q \in DOMAIN questions :
          (BatchOf(p) < BatchOf(q) /\ task[q] # "none") => task[p] = "done"
    /\ Cardinality(InFlight) <= batch_size

\* C3's case: with batches of two, the third question is inside a call while
\* the first batch is complete.
C3_Witness ==
    /\ batch_size = 2
    /\ Len(questions) = 3
    /\ task[3] \in {"rag", "judge"}
    /\ Len(results) = 2

\* C4: every call of rag_query_fn or evaluator_model is a suspension point at
\* which the other tasks of the batch can run: while one task of a batch is
\* inside a call, another task of the batch that is ready can start its own.
C4_CallsAreSuspensionPoints ==
    \A p, q \in DOMAIN questions :
       (task[p] \in {"rag", "judge"} /\ task[q] = "ready") => ENABLED TaskRun(q)

\* What the code does instead: at most one task is inside a call at any time.
C4_OneCallAtATime == Cardinality(InCall) <= 1

----------------------------------------------------------------------------
\* Claims about create_tests.

RECURSIVE Pow2(_)
Pow2(n) == IF n = 0 THEN 1 ELSE 2 * Pow2(n - 1)

\* C5: create_tests never invokes the model a 6th time, and when every attempt
\* failed (with whatever mix of rate-limit and other failures) it has invoked
\* it exactly 5 times and raises the error that names 5 attempts.
C5_RaisesAfterFiveAttempts ==
    /\ invocations <= 5
    /\ (invocations = 5 /\ waits = 5) => rpc = "raised"
    /\ rpc = "raised" =>
          /\ invocations = 5
          /\ outcome = [kind |-> "raise",
                        value |-> <<"Failed to complete after ", "5", " attempts.">>]

\* C5's case: all five attempts failed, some with a rate limit and some with
\* another error, and the terminal error was raised.
C5_Witness ==
    /\ rpc = "raised"
    /\ invocations = 5
    /\ other_failures \in 1..4

\* C6: when create_tests returns, after k failed attempts (0 <= k <= 4, the
\* value of `attempt`), it has invoked the model k + 1 times and waited k times,
\* it returns a value the model gave, and nothing more happens.
C6_ReturnsAfterKWaits ==
    rpc = "returned" =>
       /\ attempt \in 0..4
       /\ invocations = attempt + 1
       /\ waits = attempt
       /\ outcome.kind = "return"
       /\ outcome.value \in Responses
       /\ ~ENABLED NextRetry

\* C6's case: the invocation failed twice and then succeeded.
C6_Witness ==
    /\ rpc = "returned"
    /\ attempt = 2
    /\ waits = 2
    /\ invocations = 3

\* C7 as claimed: the wait after a non-rate-limit failure of attempt k (from 1)
\* is 2^k, whatever kinds of failure came before.
C7_WaitIsTwoToTheAttempt ==
    (rpc = "sleep" /\ ~IsRateLimit(error_message)) => wait_time = Pow2(attempt + 1)

\* C7 as amended: the delay doubles after each attempt that failed with a
\* non-rate-limit error only, so the wait after such a failure is 2^m, where m
\* counts the attempts so far (this one included) that failed with a
\* non-rate-limit error; it is 2^k when no earlier attempt hit a rate limit.
C7_WaitIsTwoToTheOtherFailures ==
    (rpc = "sleep" /\ ~IsRateLimit(error_message)) =>
       /\ other_failures \in 1..(attempt + 1)
       /\ wait_time = Pow2(other_failures)
       /\ retry_delay = wait_time

\* C7's case: the third attempt fails with a non-rate-limit error after one
\* rate-limit failure and one other failure; the wait is 4, not 8.
C7_Witness ==
    /\ rpc = "sleep"
    /\ ~IsRateLimit(error_message)
    /\ attempt = 2
    /\ other_failures = 2
    /\ wait_time = 4

\* The number written right after the first "try again in" marker of a text (a
\* run of digits, and a fraction when a full stop and digits follow; then the
\* end of the text, a blank, a full stop or the unit), as a reader of the text
\* takes it: whether there is one, its digits, and how many of them are the
\* fraction's.
RECURSIVE LeadingDigits(_)
LeadingDigits(s) ==
    IF s = <<>> \/ ~IsDigit(Head(s)) THEN <<>>
    ELSE <<Head(s)>> \o LeadingDigits(Tail(s))

SuggestedWait(msg) ==
    IF ~Contains(msg, TRY_AGAIN)
    THEN [present |-> FALSE, digits |-> <<>>, fraction |-> 0]
    ELSE LET k == Find(msg, TRY_AGAIN)
             rest == LStrip(SubSeq(msg, k + 1, Len(msg)))
             whole == LeadingDigits(rest)
             after == SubSeq(rest, Len(whole) + 1, Len(rest))
             frac == IF after # <<>> /\ Head(after) = "."
                     THEN LeadingDigits(Tail(after))
                     ELSE <<>>
             tail == IF frac = <<>> THEN after
                     ELSE SubSeq(after, Len(frac) + 2, Len(after))
         IN  [present |-> whole # <<>> /\ (tail = <<>> \/ Head(tail) \in {" ", ".", "s"}),
              digits |-> whole \o frac,
              fraction |-> Len(frac)]

RECURSIVE Pow10(_)
Pow10(n) == IF n = 0 THEN 1 ELSE 10 * Pow10(n - 1)

\* C8: after a rate-limit failure the wait is the number that follows the "try
\* again in" marker when there is one, and the default of 60 when there is
\* none.
C8_WaitIsSuggestedWait ==
    (rpc = "sleep" /\ IsRateLimit(error_message)) =>
       LET v == SuggestedWait(error_message)
       IN  IF v.present
           THEN wait_time * Pow10(v.fraction) = DecimalOf(v.digits)
           ELSE wait_time = DEFAULT_WAIT

\* What the code does: the wait is the default of 60, or the whole number
\* that stands right after the marker (its fraction, if any, cut off).
C8_WaitIsWholeNumberOrDefault ==
    (rpc = "sleep" /\ IsRateLimit(error_message)) =>
       LET v == SuggestedWait(error_message)
           whole == SubSeq(v.digits, 1, Len(v.digits) - v.fraction)
       IN  \/ wait_time = DEFAULT_WAIT
           \/ whole # <<>> /\ wait_time = DecimalOf(whole)

----------------------------------------------------------------------------
\* Claims about parse_evaluation.

\* The lines of the parsed text, as the parser cuts them.
PLines == LinesOf(ptext)
\* Whether ptext is a string.
PIsText == ptext \notin {NoneValue, NonStrValue}

\* A line that has the score keyword (in any case: lines are lower-cased).
HasScoreWord(line) == \E k \in 1..Len(line) : line[k] = "score"
\* Where the digits of a line are.
DigitPos(line) == {k \in 1..Len(line) : line[k] \in {"0", "1", "2"}}
\* A score-keyword line that ends with "0" or "1".
TrailingBinary(line) ==
    HasScoreWord(line) /\ line # <<>> /\ line[Len(line)] \in {"0", "1"}
\* A score-keyword line whose digits are exactly "0" or exactly "1".
CleanBinary(line) ==
    /\ HasScoreWord(line)
    /\ Cardinality(DigitPos(line)) = 1
    /\ \A k \in DigitPos(line) : line[k] \in {"0", "1"}
TheDigit(line) == line[CHOOSE k \in DigitPos(line) : TRUE]

\* C9 as claimed: when a line of the text has a score keyword and ends with "0"
\* or "1", the score is that digit, whatever else is on the line and whatever
\* other lines there are.
C9_TrailingDigitIsScore ==
    (ppc = "parsed" /\ PIsText) =>
       \A k \in 1..Len(PLines) :
          TrailingBinary(PLines[k]) => presult.score = <<PLines[k][Len(PLines[k])]>>

\* C9 as amended: when a line of the text has a score keyword and exactly one
\* digit character, a "0" or a "1" (at its end or not), the score is the digit
\* of the last such line, whatever non-digit characters are on the line; a
\* score-keyword line with any further digit is ignored.
C9_LastCleanDigitIsScore ==
    (ppc = "parsed" /\ PIsText) =>
       \A k \in 1..Len(PLines) :
          (/\ CleanBinary(PLines[k])
           /\ \A j \in (k + 1)..Len(PLines) : ~CleanBinary(PLines[j]))
          => presult.score = <<TheDigit(PLines[k])>>

\* C9's case: a text of two score lines, the first with "0" and the last with
\* "1", parsed to the score "1".
C9_Witness ==
    /\ ppc = "parsed"
    /\ PIsText
    /\ Len(PLines) = 2
    /\ CleanBinary(PLines[1]) /\ TheDigit(PLines[1]) = "0"
    /\ CleanBinary(PLines[2]) /\ TheDigit(PLines[2]) = "1"
    /\ presult.score = <<"1">>

\* C10: when no line of the text has a score keyword, or the digits of every
\* line that has one are not exactly "0" or "1", the score is the default "0".
C10_DefaultScoreOtherwise ==
    (ppc = "parsed" /\ PIsText /\ \A k \in 1..Len(PLines) : ~CleanBinary(PLines[k]))
    => presult.score = DEFAULT_SCORE

\* C10's case: the only score line of the text has two digits and ends with
\* "1"; the score is "0".
C10_Witness ==
    /\ ppc = "parsed"
    /\ PIsText
    /\ \E k \in 1..Len(PLines) :
          /\ TrailingBinary(PLines[k])
          /\ Cardinality(DigitPos(PLines[k])) = 2
    /\ \A k \in 1..Len(PLines) : ~CleanBinary(PLines[k])
    /\ presult.score = <<"0">>

\* C11: parse_evaluation on the empty string returns the default score "0" and
\* the default explanation "Failed to parse evaluation", and raises nothing.
C11_EmptyTextGivesDefaults ==
    (ppc # "input" /\ ptext = <<>>) =>
       /\ ppc = "parsed"
       /\ presult = [score |-> <<"0">>, explanation |-> <<"Failed to parse evaluation">>]

\* C11's case: the empty string was parsed.
C11_Witness == ppc = "parsed" /\ ptext = <<>>

\* C12: parse_evaluation never lets a fault reach its caller: a fault inside it
\* gives the default score "0" and an explanation annotated with the error, and
\* otherwise it returns a (score, explanation) pair with a score of "0" or "1".
C12_NoFaultPropagates ==
    /\ ppc # "raised"
    /\ ppc = "parsed" =>
          IF TryFault(ptext) # "none"
          THEN /\ presult.score = <<"0">>
               /\ presult.explanation = <<"Error in evaluation parsing: ", TryFault(ptext)>>
          ELSE /\ presult.score \in {<<"0">>, <<"1">>}
               /\ DOMAIN presult = {"score", "explanation"}

\* C12's case: a value that is no string was handed in; the call returned the
\* default score and the annotated explanation.
C12_Witness ==
    /\ ppc = "parsed"
    /\ ptext = NonStrValue
    /\ presult.score = <<"0">>

\* A line that has the explanation keyword.
HasExplanationWord(line) == \E k \in 1..Len(line) : line[k] = "explanation"
\* The text after the first colon of a line that has one, trimmed.
AfterColon(line) ==
    LET k == CHOOSE c \in 1..Len(line) :
                line[c] = ":" /\ \A b \in 1..(c - 1) : line[b] # ":"
    IN  Strip(SubSeq(line, k + 1, Len(line)))
HasColon(line) == \E c \in 1..Len(line) : line[c] = ":"
\* The lines in which an explanation can be found: the keyword, a colon, and
\* something after the colon.
ExplanationLines(lines) ==
    {k \in 1..Len(lines) :
        /\ HasExplanationWord(lines[k])
        /\ HasColon(lines[k])
        /\ AfterColon(lines[k]) # <<>>}
\* The lines with the keyword and a colon, with or without something after it.
ColonExplanationLines(lines) ==
    {k \in 1..Len(lines) : HasExplanationWord(lines[k]) /\ HasColon(lines[k])}
Last(S) == CHOOSE k \in S : \A j \in S : j <= k

\* C13: the explanation is the text after the first colon of the (last) line in
\* which an explanation is found, trimmed and capitalized; when none is found
\* (no keyword line, a keyword line without a colon, nothing after the colon)
\* it is the default explanation.
C13_ExplanationOrDefault ==
    (ppc = "parsed" /\ PIsText) =>
       presult.explanation =
          IF ExplanationLines(PLines) = {}
          THEN <<"Failed to parse evaluation">>
          ELSE Capitalize(AfterColon(PLines[Last(ExplanationLines(PLines))]))

\* What the code does: a keyword line with a colon and nothing after it sets the
\* explanation to the empty string, also over an explanation found before.
C13_ExplanationOrEmpty ==
    (ppc = "parsed" /\ PIsText) =>
       presult.explanation =
          IF ColonExplanationLines(PLines) = {}
          THEN <<"Failed to parse evaluation">>
          ELSE Capitalize(AfterColon(PLines[Last(ColonExplanationLines(PLines))]))

----------------------------------------------------------------------------
\* More claims about evaluate_batch.

\* C19: a None from rag_query_fn is an ordinary response: the judge is called
\* for that question all the same (it returned a text or raised), and when the
\* judge returned, the result carries the None response, not "ERROR", and the
\* score parsed from the judge's text.
C19_NoneResponseIsJudged ==
    \A q \in DOMAIN questions :
       rag_response[q] = NoneValue =>
          /\ task[q] \in {"judge", "done"}
          /\ task[q] = "done" =>
                /\ evaluation[q] # Unset \/ fault[q] \in JudgeFaults
                /\ fault[q] = "none" =>
                      /\ batch_results[q].rag_response = NoneValue
                      /\ batch_results[q].rag_response # <<"ERROR">>
                      /\ batch_results[q].score = parse_evaluation(evaluation[q]).score

\* C19's case: a question whose RAG response was None is in the results with
\* the score "1" that the judge's text gave it.
C19_Witness ==
    /\ pc = "done"
    /\ \E q \in DOMAIN questions :
          /\ rag_response[q] = NoneValue
          /\ fault[q] = "none"
          /\ results[q].rag_response = NoneValue
          /\ results[q].score = <<"1">>

\* C20: progress is reported once after each batch and never before: the count
\* of the bar is at every moment the number of results accumulated, which is
\* min(k x batch_size, N) after batch k and N at the end, and the batch index
\* last shown is the number of batches completed.
C20_ProgressAfterEachBatch ==
    (pbar.present /\ pc # "idle") =>
       /\ pbar.n = Len(results)
       /\ pbar.n = Min(i, Len(questions))
       /\ pbar.desc[1] = i \div batch_size
       /\ pc = "done" => pbar.n = Len(questions)

\* C20's case: three questions in batches of two; the run is over and the bar
\* counts three after two reports.
C20_Witness ==
    /\ pc = "done"
    /\ pbar.present
    /\ Len(questions) = 3
    /\ batch_size = 2
    /\ pbar.n = 3
    /\ pbar.desc[1] = 2

----------------------------------------------------------------------------
\* Claims about evaluate_rag_system.

\* The results whose score is "1", and those whose score is "0" or "1".
Ones == {k \in DOMAIN run_results : run_results[k] = "1"}
Valid == {k \in DOMAIN run_results : run_results[k] \in {"0", "1"}}
Computed == epc \in {"save", "returned"} \/ (epc = "raised" /\ average_score.den # 0)

\* C14: the average is 100 x (results with score "1") / (results with score "0"
\* or "1"); a result with another score is in neither count.
C14_AverageOverValidScores ==
    (Computed /\ Valid # {}) =>
       /\ average_score.den > 0
       /\ average_score.num * Cardinality(Valid)
             = 100 * Cardinality(Ones) * average_score.den

\* C14's case: the scores "1", "1", "0", "invalid", "0" gave the average 50.0,
\* which the run returned.
C14_Witness ==
    /\ epc = "returned"
    /\ run_results = <<"1", "1", "0", "invalid", "0">>
    /\ average_score.num = 50 * average_score.den

\* The run was started with its preconditions met and met no fault of the
\* evaluation or of the file system.
CleanRun ==
    /\ PreconditionError(test_set_exists, arg_batch_size, num_tests) = "none"
    /\ run_error \notin {"KeyError", "OSError"}

\* C15: a run without a result of a valid score (a run over zero test cases
\* too) returns 0.0 and raises nothing.
C15_NoValidScoreReturnsZero ==
    (CleanRun /\ epc \in {"returned", "raised"} /\ Valid = {}) =>
       /\ epc = "returned"
       /\ average_score.num = 0
       /\ average_score.den > 0

\* What holds of the code: with results, none of a valid score, the run
\* returns 0.0; over zero test cases it raises IndexError.
C15_ZeroOnlyWithResults ==
    (CleanRun /\ epc \in {"returned", "raised"} /\ Valid = {}) =>
       IF run_results # <<>>
       THEN epc = "returned" /\ average_score.num = 0 /\ average_score.den > 0
       ELSE epc = "raised" /\ run_error = "IndexError" /\ report = "empty"

\* C16: a missing test-set file gives a not-found error, batch_size < 1 and a
\* given num_tests < 1 give a validation error, and then nothing was read, no
\* call was made, and no directory or report was created.
NoWorkDone ==
    /\ ~csv_read
    /\ rag_calls = 0
    /\ results_dir # "created"
    /\ report = "none"
    /\ ~run_pbar.created
C16_FailsFast ==
    epc # "validate" =>
       /\ ~test_set_exists =>
             epc = "raised" /\ run_error = "FileNotFoundError" /\ NoWorkDone
       /\ (test_set_exists /\ arg_batch_size < 1) =>
             /\ epc = "raised"
             /\ run_error = "ValueError: batch_size must be at least 1"
             /\ NoWorkDone
       /\ (test_set_exists /\ arg_batch_size >= 1
              /\ num_tests # NoNumTests /\ num_tests[1] < 1) =>
             /\ epc = "raised"
             /\ run_error = "ValueError: num_tests must be at least 1"
             /\ NoWorkDone

\* C16's case: num_tests = 0 was given for a file that exists, with rows, and
\* the run raised the validation error.
C16_Witness ==
    /\ epc = "raised"
    /\ test_set_exists
    /\ csv_rows > 0
    /\ num_tests = <<0>>
    /\ run_error = "ValueError: num_tests must be at least 1"

----------------------------------------------------------------------------
\* Claims about parse_response.

\* What a line is, read off its tokens: a question or an answer line has its
\* prefix, a number (possibly none) and a colon.
IsQuestionLine(line) == Len(line) >= 1 /\ line[1] = "question_"
IsAnswerLine(line) == Len(line) >= 1 /\ line[1] = "answer_"
\* The number of a question or answer line: the tokens between the prefix and
\* the colon.
NumberOf(line) ==
    LET ends == {c \in 2..Len(line) : line[c] = ":"}
        stop == IF ends = {} THEN Len(line) + 1 ELSE CHOOSE c \in ends : \A b \in ends : c <= b
    IN  SubSeq(line, 2, stop - 1)
\* The words of a line: what follows its colon and blank.
WordsOf(line) == SelectSeq(line, LAMBDA t : t = "w")

\* The entries a response should give: a question line makes its number
\* pending, an answer line of the pending number emits the entry and leaves
\* nothing pending.  `pending` is <<>> or <<number, words>>.
RECURSIVE ExpectedData(_, _, _)
ExpectedData(lines, id, pending) ==
    IF lines = <<>> THEN <<>>
    ELSE LET line == Head(lines)
         IN  IF Len(line) >= 2 /\ line[1] = "id" /\ line[2] = ":"
             THEN ExpectedData(Tail(lines), SubSeq(line, 4, Len(line)), pending)
             ELSE IF IsQuestionLine(line)
             THEN ExpectedData(Tail(lines), id, <<NumberOf(line), WordsOf(line)>>)
             ELSE IF IsAnswerLine(line) /\ pending # <<>> /\ NumberOf(line) = pending[1]
             THEN <<[id |-> id, question_num |-> pending[1],
                     question |-> pending[2], answer |-> WordsOf(line)]>>
                  \o ExpectedData(Tail(lines), id, <<>>)
             ELSE ExpectedData(Tail(lines), id, pending)

\* C17: parse_response emits an entry only at an answer line whose number is
\* that of a pending question not yet answered: the entries are those of the
\* pending-question reading, so a repeated answer and an answer with no
\* question pending emit nothing.
C17_EmitsOnlyForPendingQuestion ==
    gpc = "returned" => data = ExpectedData(response_lines, <<>>, <<>>)

\* C18: no two entries emitted for one response share (id, question_num).
C18_UniqueIdAndNumber ==
    gpc = "returned" =>
       \A a, b \in DOMAIN data :
          (a # b) => <<data[a].id, data[a].question_num>>
                        # <<data[b].id, data[b].question_num>>

----------------------------------------------------------------------------
\* More claims about evaluate_rag_system.

\* C21: once the progress bar exists, every way out of evaluate_rag_system
\* (return, a fault of the evaluation, a fault of writing the report) closes
\* it, and a fault of writing the report reaches the caller: the run ends
\* raised with that fault, never returned.
C21_BarClosedOnEveryExit ==
    /\ (epc \in {"returned", "raised"} /\ run_pbar.created) => run_pbar.closes >= 1
    /\ epc = "returned" => run_error = "none" /\ report = "written"
    /\ run_error \in {"OSError", "KeyError", "IndexError"} =>
          epc = "raised" /\ run_pbar.created

\* C21's case: open() of the report failed; the run raised OSError with the
\* bar closed.
C21_Witness ==
    /\ epc = "raised"
    /\ run_error = "OSError"
    /\ run_pbar.created
    /\ run_pbar.closes = 1

----------------------------------------------------------------------------
\* Claims about TestGenerator.main.

RECURSIVE CasesUpTo(_)
CasesUpTo(k) == IF k = 0 THEN <<>> ELSE CasesUpTo(k - 1) \o parsed_data[k]

\* C25: `data` is written only by the thread that runs main, in its for loop,
\* never in a step of a pool thread; it holds the test cases of the files in
\* input order, and so does the CSV, whatever order the calls ended in.
C25_DataInInputOrder ==
    /\ mpc \in {"extend", "saved"} => main_data = CasesUpTo(extended)
    /\ mpc = "saved" => output_csv = CasesUpTo(files)
    /\ mpc \in {"map", "shutdown", "raised"} => main_data = <<>>
C25_OnlyMainWrites ==
    (main_data' # main_data) =>
       /\ mpc = "extend"
       /\ fstate' = fstate
       /\ parsed_data' = parsed_data
       /\ done_order' = done_order
C25_MainWritesInInputOrder == []C25_DataInInputOrder /\ [][C25_OnlyMainWrites]_vars

\* C25's case: the second file ended before the first, and the CSV holds the
\* first file's test case before the second's.
C25_Witness ==
    /\ mpc = "saved"
    /\ done_order = <<2, 1>>
    /\ output_csv = Cases(1, 1) \o Cases(2, 1)

\* The files whose call ended in an exception, and the test cases of the others.
RaisedFiles == {d \in DOMAIN fstate : fstate[d] = "raised"}
RECURSIVE CasesOfDone(_)
CasesOfDone(k) ==
    IF k = 0 THEN <<>>
    ELSE CasesOfDone(k - 1) \o (IF fstate[k] = "done" THEN parsed_data[k] ELSE <<>>)

\* C26: a fault of one file's processing is caught, and the test cases of the
\* other files are accumulated and saved to the CSV.
C26_FaultOfOneFileIsCaught ==
    ( /\ mpc \in {"saved", "raised"}
      /\ RaisedFiles # {}
      /\ \E d \in DOMAIN fstate : fstate[d] = "done" ) =>
       /\ mpc = "saved"
       /\ output_csv = CasesOfDone(files)

\* What the code does: once a file's call has raised, the run never saves; the
\* exception leaves main with `data` empty and no CSV written.
C26_AnyFaultAbortsTheRun ==
    /\ (mpc \in {"saved", "raised"} /\ RaisedFiles # {}) =>
          /\ mpc = "raised"
          /\ main_data = <<>>
          /\ output_csv = Unset
    /\ mpc = "raised" => RaisedFiles # {}

----------------------------------------------------------------------------
\* Claims about evaluate_batch: scores, the accumulator, the batch position.

BinaryScores == {<<"0">>, <<"1">>}

\* C23: every result of evaluate_batch has the score "0" or "1", whatever the
\* judge's text, the RAG response or the fault was.
C23_ScoresAreBinary ==
    /\ \A k \in DOMAIN results : results[k].score \in BinaryScores
    /\ \A q \in DOMAIN task :
          task[q] = "done" => batch_results[q].score \in BinaryScores

\* C23's case: the run is over; the judge scored a question "2", out of range,
\* and its result has the score "0".
C23_Witness ==
    /\ pc = "done"
    /\ \E q \in DOMAIN questions :
          /\ evaluation[q] = <<"Score", ":", " ", "2">>
          /\ results[q].score = <<"0">>

\* C24: results is append-only: every step keeps the results held before it,
\* unchanged and in place, as a prefix of the results held after it.
C24_PrefixKept ==
    /\ Len(results') >= Len(results)
    /\ SubSeq(results', 1, Len(results)) = results
C24_ResultsAppendOnly == [][C24_PrefixKept]_vars

\* C24's case: two batches were accumulated: the run over three questions in
\* batches of two is over and results holds the three.
C24_Witness ==
    /\ pc = "done"
    /\ batch_size = 2
    /\ Len(questions) = 3
    /\ Len(results) = 3

\* ceil(n / b)
CeilDiv(n, b) == (n + b - 1) \div b

\* C28: the total of batches in the description is the number of batches
\* processed, ceil(N / batch_size), so that after the last batch the batch
\* index shown equals the total shown.
C28_BatchPositionConsistent ==
    (pbar.present /\ pc = "done" /\ Len(questions) >= 1) =>
       /\ pbar.desc[2] = CeilDiv(Len(questions), batch_size)
       /\ pbar.desc[1] = pbar.desc[2]

\* What the code shows: the index of the last batch is ceil(N / batch_size),
\* the total is N // batch_size + 1, one too many when batch_size divides N.
C28_TotalIsQuotientPlusOne ==
    (pbar.present /\ pc = "done" /\ Len(questions) >= 1) =>
       /\ pbar.desc[1] = CeilDiv(Len(questions), batch_size)
       /\ pbar.desc[2] = (Len(questions) \div batch_size) + 1
       /\ pbar.desc[1] = pbar.desc[2] <=> Len(questions) % batch_size # 0

----------------------------------------------------------------------------
\* One more claim about create_tests.

\* C27: create_tests waits only between attempts: a wait is on only while an
\* attempt is left, and a run that fails all its attempts has waited once less
\* than it has invoked.
C27_WaitsOnlyBetweenAttempts ==
    /\ rpc = "sleep" => invocations < max_retries
    /\ rpc = "raised" => waits = max_retries - 1

\* What the code does: every failed invocation is followed by a wait, the last
\* one too; the run that fails all its attempts has waited max_retries times.
C27_WaitsAfterEveryFailure ==
    /\ rpc = "sleep" => waits = invocations - 1
    /\ rpc = "raised" => waits = max_retries /\ invocations = max_retries

----------------------------------------------------------------------------
\* The claim about the dashboard.

\* A step that removes a file of the results folder.
FileDeleted == \E f \in csv_files : f \notin csv_files'

\* C29: files are deleted only by the click on "Yes, delete all" in a state
\* where confirm_delete is true; the click on "Clear Results Folder" deletes
\* nothing and sets confirm_delete; "No, cancel" deletes nothing and resets
\* it; and after a deletion that succeeded confirm_delete is false again.
C29_DeletesOnlyWhenConfirmed ==
    /\ FileDeleted => confirm_delete /\ last_click' = "Yes, delete all"
    /\ (cleared' # cleared /\ cleared'.result # "none") =>
          confirm_delete /\ last_click' = "Yes, delete all"
C29_ClickOutcomes ==
    /\ last_click = "Clear Results Folder" => confirm_delete /\ cleared = NotCalled
    /\ last_click = "No, cancel" => ~confirm_delete /\ cleared = NotCalled
    /\ (last_click = "Yes, delete all" /\ cleared.result = "ok") => ~confirm_delete
C29_TwoStepConfirmation == []C29_ClickOutcomes /\ [][C29_DeletesOnlyWhenConfirmed]_vars

\* C29's case: "Yes, delete all" was clicked, the files of the folder were
\* removed, and confirm_delete is false again.
C29_Witness ==
    /\ last_click = "Yes, delete all"
    /\ cleared.result = "ok"
    /\ cleared.removed # {}
    /\ csv_files = {}
    /\ ~confirm_delete

====
